---------------------------- MODULE Spec2Model ----------------------------
(***************************************************************************)
(* uAES: AES-128/192/256 block cipher with ECB and CBC drivers working in  *)
(* place on caller buffers (src/uaes.c).  Bytes are integers 0..255, a     *)
(* block is a function 0..15 -> byte, a schedule word is a byte quad.      *)
(***************************************************************************)
EXTENDS Integers, Sequences, FiniteSets, TLC

Byte == 0..255

(* ---- program constants (uaes.h) ---- *)
uAES_MAX_INPUT_SIZE == 64
uAES_MAX_KEY_SIZE == 32
uAES_BLOCK_SIZE == 16
uAES_MAX_KSCHD_SIZE == 60
uAES128_KSCHD_SIZE == 44
uAES192_KSCHD_SIZE == 52
uAES256_KSCHD_SIZE == 60
uAES128 == 0
uAES192 == 1
uAES256 == 2
uAESRGE == 3

(* ---- GF(2^8) arithmetic and tables (section 4.1 of the specification;    *)
(*      ops.c is not part of the sources at hand) ---- *)
RECURSIVE XorBits(_, _, _)
XorBits(a, b, n) ==
  IF n = 0 THEN 0
  ELSE ((a + b) % 2) + 2 * XorBits(a \div 2, b \div 2, n - 1)

RECURSIVE OrBits(_, _, _)
OrBits(a, b, n) ==
  IF n = 0 THEN 0
  ELSE (IF a % 2 = 1 \/ b % 2 = 1 THEN 1 ELSE 0) + 2 * OrBits(a \div 2, b \div 2, n - 1)

XorNib == [a \in 0..15 |-> [b \in 0..15 |-> XorBits(a, b, 4)]]

XorTable ==
  [a \in Byte |-> [b \in Byte |->
     16 * XorNib[a \div 16][b \div 16] + XorNib[a % 16][b % 16]]]
Xor(a, b) == XorTable[a][b]

xtime(a) == IF a >= 128 THEN Xor((2 * a) % 256, 27) ELSE 2 * a

(* multiplication by the MixColumns constants, tabulated once *)
Mul2Table == [a \in Byte |-> xtime(a)]
Mul3Table == [a \in Byte |-> Xor(xtime(a), a)]
Mul9Table == [a \in Byte |-> Xor(xtime(xtime(xtime(a))), a)]
Mul11Table == [a \in Byte |-> Xor(Xor(xtime(xtime(xtime(a))), xtime(a)), a)]
Mul13Table == [a \in Byte |-> Xor(Xor(xtime(xtime(xtime(a))), xtime(xtime(a))), a)]
Mul14Table ==
  [a \in Byte |-> Xor(Xor(xtime(xtime(xtime(a))), xtime(xtime(a))), xtime(a))]
Mul2(a) == Mul2Table[a]
Mul3(a) == Mul3Table[a]
Mul9(a) == Mul9Table[a]
Mul11(a) == Mul11Table[a]
Mul13(a) == Mul13Table[a]
Mul14(a) == Mul14Table[a]

SBoxTable ==
  << 99, 124, 119, 123, 242, 107, 111, 197,  48,   1, 103,  43, 254, 215, 171, 118,
    202, 130, 201, 125, 250,  89,  71, 240, 173, 212, 162, 175, 156, 164, 114, 192,
    183, 253, 147,  38,  54,  63, 247, 204,  52, 165, 229, 241, 113, 216,  49,  21,
      4, 199,  35, 195,  24, 150,   5, 154,   7,  18, 128, 226, 235,  39, 178, 117,
      9, 131,  44,  26,  27, 110,  90, 160,  82,  59, 214, 179,  41, 227,  47, 132,
     83, 209,   0, 237,  32, 252, 177,  91, 106, 203, 190,  57,  74,  76,  88, 207,
    208, 239, 170, 251,  67,  77,  51, 133,  69, 249,   2, 127,  80,  60, 159, 168,
     81, 163,  64, 143, 146, 157,  56, 245, 188, 182, 218,  33,  16, 255, 243, 210,
    205,  12,  19, 236,  95, 151,  68,  23, 196, 167, 126,  61, 100,  93,  25, 115,
     96, 129,  79, 220,  34,  42, 144, 136,  70, 238, 184,  20, 222,  94,  11, 219,
    224,  50,  58,  10,  73,   6,  36,  92, 194, 211, 172,  98, 145, 149, 228, 121,
    231, 200,  55, 109, 141, 213,  78, 169, 108,  86, 244, 234, 101, 122, 174,   8,
    186, 120,  37,  46,  28, 166, 180, 198, 232, 221, 116,  31,  75, 189, 139, 138,
    112,  62, 181, 102,  72,   3, 246,  14,  97,  53,  87, 185, 134, 193,  29, 158,
    225, 248, 152,  17, 105, 217, 142, 148, 155,  30, 135, 233, 206,  85,  40, 223,
    140, 161, 137,  13, 191, 230,  66, 104,  65, 153,  45,  15, 176,  84, 187,  22 >>

InvSBoxTable ==
  << 82,   9, 106, 213,  48,  54, 165,  56, 191,  64, 163, 158, 129, 243, 215, 251,
    124, 227,  57, 130, 155,  47, 255, 135,  52, 142,  67,  68, 196, 222, 233, 203,
     84, 123, 148,  50, 166, 194,  35,  61, 238,  76, 149,  11,  66, 250, 195,  78,
      8,  46, 161, 102,  40, 217,  36, 178, 118,  91, 162,  73, 109, 139, 209,  37,
    114, 248, 246, 100, 134, 104, 152,  22, 212, 164,  92, 204,  93, 101, 182, 146,
    108, 112,  72,  80, 253, 237, 185, 218,  94,  21,  70,  87, 167, 141, 157, 132,
    144, 216, 171,   0, 140, 188, 211,  10, 247, 228,  88,   5, 184, 179,  69,   6,
    208,  44,  30, 143, 202,  63,  15,   2, 193, 175, 189,   3,   1,  19, 138, 107,
     58, 145,  17,  65,  79, 103, 220, 234, 151, 242, 207, 206, 240, 180, 230, 115,
    150, 172, 116,  34, 231, 173,  53, 133, 226, 249,  55, 232,  28, 117, 223, 110,
     71, 241,  26, 113,  29,  41, 197, 137, 111, 183,  98,  14, 170,  24, 190,  27,
    252,  86,  62,  75, 198, 210, 121,  32, 154, 219, 192, 254, 120, 205,  90, 244,
     31, 221, 168,  51, 136,   7, 199,  49, 177,  18,  16,  89,  39, 128, 236,  95,
     96,  81, 127, 169,  25, 181,  74,  13,  45, 229, 122, 159, 147, 201, 156, 239,
    160, 224,  59,  77, 174,  42, 245, 176, 200, 235, 187,  60, 131,  83, 153,  97,
     23,  43,   4, 126, 186, 119, 214,  38, 225, 105,  20,  99,  85,  33,  12, 125 >>

SBox(b) == SBoxTable[b + 1]
InvSBox(b) == InvSBoxTable[b + 1]

RconTable == << 1, 2, 4, 8, 16, 32, 64, 128, 27, 54, 108, 216, 171, 77, 154 >>
Rcon(i) == << RconTable[i], 0, 0, 0 >>

(* A block built eagerly from its sixteen bytes, offsets 0..15. *)
Tab16(F(_)) ==
  << F(0), F(1), F(2), F(3), F(4), F(5), F(6), F(7),
     F(8), F(9), F(10), F(11), F(12), F(13), F(14), F(15) >>
At(block, i) == block[i + 1]

(* F applied to the value of x, computed once: a C argument is evaluated *)
(* before the call, however often the callee reads it.                   *)
Strict(x, F(_)) == CHOOSE r \in { F(v) : v \in {x} } : TRUE

ZeroBlock == Tab16(LAMBDA i : 0)
ZeroWord == << 0, 0, 0, 0 >>
ZeroSchedule == [i \in 0..(uAES_MAX_KSCHD_SIZE - 1) |-> ZeroWord]

XorWord(u, v) == << Xor(u[1], v[1]), Xor(u[2], v[2]), Xor(u[3], v[3]), Xor(u[4], v[4]) >>
RotWord(w) == << w[2], w[3], w[4], w[1] >>
SubWord(w) == << SBox(w[1]), SBox(w[2]), SBox(w[3]), SBox(w[4]) >>

(* ---- block transform (section 4.2): offset of row r, column c is 4c+r ---- *)
sub_block(block) == Strict(block, LAMBDA s : Tab16(LAMBDA i : SBox(At(s, i))))
inv_sub_block(block) == Strict(block, LAMBDA s : Tab16(LAMBDA i : InvSBox(At(s, i))))

shift_rows(block) ==
  Strict(block, LAMBDA s :
    Tab16(LAMBDA i : At(s, 4 * (((i \div 4) + (i % 4)) % 4) + (i % 4))))
inv_shift_rows(block) ==
  Strict(block, LAMBDA s :
    Tab16(LAMBDA i : At(s, 4 * (((i \div 4) + 4 - (i % 4)) % 4) + (i % 4))))

MixByte(s, c, r) ==
  Xor(Xor(Mul2(At(s, 4 * c + r)), Mul3(At(s, 4 * c + ((r + 1) % 4)))),
      Xor(At(s, 4 * c + ((r + 2) % 4)), At(s, 4 * c + ((r + 3) % 4))))
mix_columns(block) ==
  Strict(block, LAMBDA s : Tab16(LAMBDA i : MixByte(s, i \div 4, i % 4)))

InvMixByte(s, c, r) ==
  Xor(Xor(Mul14(At(s, 4 * c + r)), Mul11(At(s, 4 * c + ((r + 1) % 4)))),
      Xor(Mul13(At(s, 4 * c + ((r + 2) % 4))), Mul9(At(s, 4 * c + ((r + 3) % 4)))))
inv_mix_columns(block) ==
  Strict(block, LAMBDA s : Tab16(LAMBDA i : InvMixByte(s, i \div 4, i % 4)))

add_round_key(block, kschd, round, Nb) ==
  Strict(block, LAMBDA s :
    Tab16(LAMBDA i : Xor(At(s, i), kschd[round * Nb + (i \div 4)][(i % 4) + 1])))

(* ---- key schedule (section 4.3, FIPS-197 5.2) ---- *)
KeyWord(key, i) == << key[4 * i], key[4 * i + 1], key[4 * i + 2], key[4 * i + 3] >>

ExpTemp(w, i, Nk) ==
  IF i % Nk = 0 THEN XorWord(SubWord(RotWord(w[i - 1])), Rcon(i \div Nk))
  ELSE IF Nk > 6 /\ i % Nk = 4 THEN SubWord(w[i - 1])
  ELSE w[i - 1]

(* The loop for i = Nk .. n-1, each word from the words before it. The   *)
(* range is walked in order, first half then second half.                *)
RECURSIVE ExpandFrom(_, _, _, _)
ExpandFrom(w, i, Nk, n) ==
  Strict(<< w, i, n >>, LAMBDA v :
    IF v[2] >= v[3] THEN v[1]
    ELSE IF v[3] - v[2] = 1
    THEN [v[1] EXCEPT ![v[2]] = XorWord(v[1][v[2] - Nk], ExpTemp(v[1], v[2], Nk))]
    ELSE ExpandFrom(ExpandFrom(v[1], v[2], Nk, v[2] + (v[3] - v[2]) \div 2),
                    v[2] + (v[3] - v[2]) \div 2, Nk, v[3]))

key_expansion(key, kschd, Nk, n) ==
  ExpandFrom([i \in DOMAIN kschd |-> IF i < Nk THEN KeyWord(key, i) ELSE kschd[i]],
             Nk, Nk, n)

(* ---- caller memory: one flat byte-addressed space; a pointer is an   *)
(*      address, NULL is 0 ---- *)
NULL == 0
DataA == NULL + 1
DataB == DataA + uAES_MAX_INPUT_SIZE
KeyAddr == DataB + uAES_MAX_INPUT_SIZE
IvAddr == KeyAddr + uAES_MAX_KEY_SIZE
MemTop == IvAddr + uAES_BLOCK_SIZE
Addrs == DataA..(MemTop - 1)

ReadBlock(m, p) == Strict(m, LAMBDA v : Tab16(LAMBDA i : v[p + i]))
WriteBlock(m, p, block) ==
  Strict(<< m, block >>, LAMBDA v :
    [a \in Addrs |->
       IF a >= p /\ a < p + uAES_BLOCK_SIZE THEN At(v[2], a - p) ELSE v[1][a]])
ReadKey(m, p) == [i \in 0..(uAES_MAX_KEY_SIZE - 1) |-> IF p + i \in Addrs THEN m[p + i] ELSE 0]
Region(m, p, n) == [i \in 0..(n - 1) |-> m[p + i]]

(* ---- static helpers of src/uaes.c ---- *)
(* the operands swapped: the result lands in the second operand *)
uaes_xor_iv_Swapped(m, blk, iv) ==
  Strict(m, LAMBDA v : WriteBlock(v, iv, Tab16(LAMBDA i : Xor(v[blk + i], v[iv + i]))))

uaes_xor_iv(m, blk, iv) ==
  Strict(m, LAMBDA v : WriteBlock(v, blk, Tab16(LAMBDA i : Xor(v[blk + i], v[iv + i]))))

(* The round loops. The state of a round is computed before the next    *)
(* round is entered, as in the C loop.                                   *)
RECURSIVE FowardRounds(_, _, _, _, _)
FowardRounds(block, kschd, round, Nb, Nr) ==
  Strict(block, LAMBDA s :
    IF round < Nr
    THEN FowardRounds(add_round_key(mix_columns(shift_rows(sub_block(s))), kschd, round, Nb),
                      kschd, round + 1, Nb, Nr)
    ELSE s)

ForwardBlock(block, kschd, Nb, Nr) ==
  LET start == add_round_key(block, kschd, 0, Nb)
      mid   == FowardRounds(start, kschd, 1, Nb, Nr)
  IN  add_round_key(shift_rows(sub_block(mid)), kschd, Nr, Nb)

uaes_foward_cipher(m, buf, kschd, Nk, Nb, Nr) ==
  Strict(m, LAMBDA v : WriteBlock(v, buf, ForwardBlock(ReadBlock(v, buf), kschd, Nb, Nr)))

RECURSIVE InverseRounds(_, _, _, _)
InverseRounds(block, kschd, round, Nb) ==
  Strict(block, LAMBDA s :
    IF round > 0
    THEN InverseRounds(
           inv_mix_columns(add_round_key(inv_sub_block(inv_shift_rows(s)), kschd, round, Nb)),
           kschd, round - 1, Nb)
    ELSE s)

InverseBlock(block, kschd, Nb, Nr) ==
  LET start == add_round_key(block, kschd, Nr, Nb)
      mid   == InverseRounds(start, kschd, Nr - 1, Nb)
  IN  add_round_key(inv_sub_block(inv_shift_rows(mid)), kschd, 0, Nb)

(* the round loop started at Nr instead of Nr - 1 *)
uaes_inverse_cipher_ExtraRound(m, buf, kschd, Nk, Nb, Nr) ==
  Strict(m, LAMBDA v :
    WriteBlock(v, buf,
      LET start == add_round_key(ReadBlock(v, buf), kschd, Nr, Nb)
          mid   == InverseRounds(start, kschd, Nr, Nb)
      IN  add_round_key(inv_sub_block(inv_shift_rows(mid)), kschd, 0, Nb)))

uaes_inverse_cipher(m, buf, kschd, Nk, Nb, Nr) ==
  Strict(m, LAMBDA v : WriteBlock(v, buf, InverseBlock(ReadBlock(v, buf), kschd, Nb, Nr)))

(* ---- alignment macros (ops.h, not part of the sources at hand) ---- *)
uAES_BLOCK_ALIGN == 16
uAES_BLOCK_ALIGN_MASK == uAES_BLOCK_ALIGN - 1
uAES_ALIGN(x, a) == ((x + (a - 1)) \div a) * a

(* ---- bounds and input sets of the model ---- *)
MaxCalls == 2

Sizes == {0, 1, 15, 16, 17, 32, 33, 48, 49, 63, 64, 65}
(* the three tags, the sentinel, and the largest tag of a one-byte enumeration *)
Variants == (uAES128..uAESRGE) \cup {255}
Suites == {"ecb", "cbc", "aes128", "aes192", "aes256"}

PlainText == [i \in 0..(uAES_MAX_INPUT_SIZE - 1) |-> (17 * i) % 256]
FlipBlock(buf, j) ==
  [i \in DOMAIN buf |-> IF i = uAES_BLOCK_SIZE * j THEN Xor(buf[i], 1) ELSE buf[i]]
TestKeys ==
  { [i \in 0..(uAES_MAX_KEY_SIZE - 1) |-> i],
    [i \in 0..(uAES_MAX_KEY_SIZE - 1) |-> (43 + 7 * i * i) % 256] }
TestIVs == { [i \in 0..(uAES_BLOCK_SIZE - 1) |-> i] }
Layout(a, b, k, v) ==
  [x \in Addrs |->
     IF x < DataB THEN a[x - DataA]
     ELSE IF x < KeyAddr THEN b[x - DataB]
     ELSE IF x < IvAddr THEN k[x - KeyAddr]
     ELSE v[x - IvAddr]]
TestMemories(others) ==
  { Layout(PlainText, b, k, v) : b \in others, k \in TestKeys, v \in TestIVs }

VARIABLES
  mem,        \* caller memory: data buffers A and B, the key, the IV
  trace_msk,  \* file-scope trace mask (uaes.c:48)
  bufs,       \* the data buffers the caller passes
  suite, len, variant,  \* the entry points, size and variant tag it uses
  pc,         \* position of the call in progress, "idle" between calls
  fn,         \* entry point in progress
  arg,        \* its arguments
  err, kschd, Nk, Nb, Nr, idx, offset,   \* its locals
  ret,        \* value returned by the last call
  mem0,       \* memory at the time of the call
  events,     \* key expansions, XORs and block transforms of the call, in order
  last,       \* per data buffer, the last successful call on it
  ncalls,
  cipher_fn,  \* block cipher function in progress when followed statement by statement
  block,      \* its local copy of the block (uaes.c:116, 152)
  round,      \* its loop variable
  at,         \* its position
  ops,        \* the primitives it has called, in order
  fwd_ops     \* the primitives of the completed forward cipher

vars == << mem, trace_msk, bufs, suite, len, variant, pc, fn, arg, err, kschd,
           Nk, Nb, Nr, idx, offset, ret, mem0, events, last, ncalls,
           cipher_fn, block, round, at, ops, fwd_ops >>

caller == << bufs, suite, len, variant >>
locals == << err, kschd, Nk, Nb, Nr, idx, offset >>
cipher == << cipher_fn, block, round, at, ops, fwd_ops >>

NoArg == [buf |-> NULL, size |-> 0, key |-> NULL, iv |-> NULL, mode |-> uAES128]
NoCall == [fn |-> "none"]

InitWith(memories, pointers, sizes) ==
  /\ mem \in memories
  /\ trace_msk = 0
  /\ bufs = pointers
  /\ suite \in Suites
  /\ len \in sizes
  /\ variant \in (IF suite \in {"ecb", "cbc"} THEN Variants ELSE {uAES128})
  /\ pc = "idle"
  /\ fn = "none"
  /\ arg = NoArg
  /\ err = 0 /\ kschd = ZeroSchedule /\ Nk = 0 /\ Nb = 0 /\ Nr = 0
  /\ idx = 0 /\ offset = 0
  /\ ret = 0
  /\ mem0 = mem
  /\ events = << >>
  /\ last = [p \in {DataA, DataB} |-> NoCall]
  /\ ncalls = 0
  /\ cipher_fn = "none" /\ block = ZeroBlock /\ round = 0 /\ at = "none"
  /\ ops = << >> /\ fwd_ops = << >>

(* One data buffer in use; the second stays as it was laid out. *)
Init == InitWith(TestMemories({PlainText}), {DataA}, Sizes)

(* ---- entry: locals are initialised and the arguments validated ---- *)
BlockCount(size) ==
  (IF size % (uAES_BLOCK_ALIGN_MASK + 1) # 0
   THEN uAES_ALIGN(size, uAES_BLOCK_ALIGN) ELSE size) \div 16

NkOf(aes_mode) ==
  IF aes_mode = uAES128 THEN 4 ELSE IF aes_mode = uAES192 THEN 6
  ELSE IF aes_mode = uAES256 THEN 8 ELSE 0
NrOf(aes_mode) ==
  IF aes_mode = uAES128 THEN 10 ELSE IF aes_mode = uAES192 THEN 12
  ELSE IF aes_mode = uAES256 THEN 14 ELSE 0

ValidCbc_NoCap(a) ==
  /\ NULL # a.key /\ NULL # a.buf /\ NULL # a.iv
  /\ 0 < a.size
  /\ uAESRGE > a.mode
ValidCbc(a) ==
  /\ NULL # a.key /\ NULL # a.buf /\ NULL # a.iv
  /\ 0 < a.size /\ uAES_MAX_INPUT_SIZE >= a.size
  /\ uAESRGE > a.mode
(* the variant tag not checked *)
ValidEcb_NoTag(a) ==
  /\ NULL # a.key /\ NULL # a.buf
  /\ 0 < a.size /\ uAES_MAX_INPUT_SIZE >= a.size
ValidEcb(a) ==
  /\ NULL # a.key /\ NULL # a.buf
  /\ 0 < a.size /\ uAES_MAX_INPUT_SIZE >= a.size
  /\ uAESRGE > a.mode
ValidSingle(a) ==
  /\ NULL # a.key /\ NULL # a.buf
  /\ 0 < a.size /\ uAES_BLOCK_SIZE >= a.size

(* the schedule array each entry point declares *)
KschdSize(f) ==
  IF f \in {"uaes128enc", "uaes128dec"} THEN uAES128_KSCHD_SIZE
  ELSE IF f \in {"uaes192enc", "uaes192dec"} THEN uAES192_KSCHD_SIZE
  ELSE IF f \in {"uaes256enc", "uaes256dec"} THEN uAES256_KSCHD_SIZE
  ELSE uAES_MAX_KSCHD_SIZE
ZeroKschd(n) == [i \in 0..(n - 1) |-> ZeroWord]

Enter(f, a, valid, nk, nr, off) ==
  /\ pc = "idle"
  /\ ncalls < MaxCalls
  /\ fn' = f
  /\ arg' = a
  /\ err' = -1
  /\ kschd' = ZeroKschd(KschdSize(f))
  /\ idx' = 0
  /\ offset' = off
  /\ Nk' = nk /\ Nr' = nr /\ Nb' = 4
  /\ pc' = IF valid THEN "validated" ELSE "failed"
  /\ mem0' = mem
  /\ events' = << >>
  /\ ncalls' = ncalls + 1
  /\ UNCHANGED << mem, trace_msk, caller, ret, last, cipher >>

MultiArg(p, k, v) == [buf |-> p, size |-> len, key |-> k, iv |-> v, mode |-> variant]
SingleArg(p, k) == [buf |-> p, size |-> len, key |-> k, iv |-> NULL, mode |-> uAES128]

uaes_cbc_encryption(p, k, v) ==
  /\ suite = "cbc"
  /\ LET a == MultiArg(p, k, v)
     IN  Enter("uaes_cbc_encryption", a, ValidCbc(a), NkOf(a.mode), NrOf(a.mode),
               BlockCount(a.size))

uaes_cbc_decryption(p, k, v) ==
  /\ suite = "cbc"
  /\ LET a == MultiArg(p, k, v)
     IN  Enter("uaes_cbc_decryption", a, ValidCbc(a), NkOf(a.mode), NrOf(a.mode),
               BlockCount(a.size))

uaes_ecb_encryption(p, k) ==
  /\ suite = "ecb"
  /\ LET a == MultiArg(p, k, NULL)
     IN  Enter("uaes_ecb_encryption", a, ValidEcb(a), NkOf(a.mode), NrOf(a.mode),
               BlockCount(a.size))

uaes_ecb_decryption(p, k) ==
  /\ suite = "ecb"
  /\ LET a == MultiArg(p, k, NULL)
     IN  Enter("uaes_ecb_decryption", a, ValidEcb(a), NkOf(a.mode), NrOf(a.mode),
               BlockCount(a.size))

uaes128enc(p, k) ==
  /\ suite = "aes128"
  /\ LET a == SingleArg(p, k) IN Enter("uaes128enc", a, ValidSingle(a), 4, 10, 0)
(* the 192-bit entry point run with the 128-bit parameters *)
uaes192enc_As128(p, k) ==
  /\ suite = "aes192"
  /\ LET a == SingleArg(p, k) IN Enter("uaes192enc", a, ValidSingle(a), 4, 10, 0)
uaes192enc(p, k) ==
  /\ suite = "aes192"
  /\ LET a == SingleArg(p, k) IN Enter("uaes192enc", a, ValidSingle(a), 6, 12, 0)
uaes256enc(p, k) ==
  /\ suite = "aes256"
  /\ LET a == SingleArg(p, k) IN Enter("uaes256enc", a, ValidSingle(a), 8, 14, 0)
uaes128dec(p, k) ==
  /\ suite = "aes128"
  /\ LET a == SingleArg(p, k) IN Enter("uaes128dec", a, ValidSingle(a), 4, 10, 0)
uaes192dec(p, k) ==
  /\ suite = "aes192"
  /\ LET a == SingleArg(p, k) IN Enter("uaes192dec", a, ValidSingle(a), 6, 12, 0)
uaes256dec(p, k) ==
  /\ suite = "aes256"
  /\ LET a == SingleArg(p, k) IN Enter("uaes256dec", a, ValidSingle(a), 8, 14, 0)

(* ---- the steps of a call that passed validation ---- *)
Ev(op, i) == [op |-> op, blk |-> i]
BlockAt(i) == arg.buf + uAES_BLOCK_SIZE * i
(* the schedule kept from the first call instead of being rebuilt *)
Expanded_FirstCallOnly ==
  IF ncalls = 1
  THEN key_expansion(ReadKey(mem, arg.key), kschd, Nk, Nb * (Nr + 1))
  ELSE kschd
Expanded == key_expansion(ReadKey(mem, arg.key), kschd, Nk, Nb * (Nr + 1))
Step(f, from) == pc \in from /\ fn = f
Frame == << trace_msk, caller, fn, arg, Nk, Nb, Nr, offset, ret, mem0, last, ncalls,
           cipher >>

cbc_encryption_expand ==
  /\ Step("uaes_cbc_encryption", {"validated"})
  /\ kschd' = Expanded
  /\ events' = Append(events, Ev("key_expansion", -1))
  /\ pc' = "built"
  /\ UNCHANGED << Frame, mem, err, idx >>

cbc_encryption_first ==
  /\ Step("uaes_cbc_encryption", {"built"})
  /\ mem' = uaes_foward_cipher(uaes_xor_iv(mem, arg.buf, arg.iv),
                               BlockAt(idx), kschd, Nk, Nb, Nr)
  /\ idx' = idx + 1
  /\ events' = events \o << Ev("xor_iv", idx), Ev("foward", idx) >>
  /\ pc' = "walking"
  /\ UNCHANGED << Frame, err, kschd >>

(* the later blocks enciphered without chaining *)
cbc_encryption_loop_Unchained ==
  /\ Step("uaes_cbc_encryption", {"walking"})
  /\ offset > idx
  /\ mem' = uaes_foward_cipher(mem, BlockAt(idx), kschd, Nk, Nb, Nr)
  /\ idx' = idx + 1
  /\ events' = events \o << Ev("xor", idx), Ev("foward", idx) >>
  /\ UNCHANGED << Frame, pc, err, kschd >>

(* every block chained to the IV instead of the previous ciphertext *)
cbc_encryption_loop_IvEach ==
  /\ Step("uaes_cbc_encryption", {"walking"})
  /\ offset > idx
  /\ mem' = uaes_foward_cipher(uaes_xor_iv(mem, BlockAt(idx), arg.iv),
                               BlockAt(idx), kschd, Nk, Nb, Nr)
  /\ idx' = idx + 1
  /\ events' = events \o << Ev("xor", idx), Ev("foward", idx) >>
  /\ UNCHANGED << Frame, pc, err, kschd >>

cbc_encryption_loop ==
  /\ Step("uaes_cbc_encryption", {"walking"})
  /\ offset > idx
  /\ mem' = uaes_foward_cipher(uaes_xor_iv(mem, BlockAt(idx), BlockAt(idx - 1)),
                               BlockAt(idx), kschd, Nk, Nb, Nr)
  /\ idx' = idx + 1
  /\ events' = events \o << Ev("xor", idx), Ev("foward", idx) >>
  /\ UNCHANGED << Frame, pc, err, kschd >>

cbc_encryption_exit ==
  /\ Step("uaes_cbc_encryption", {"walking"})
  /\ ~(offset > idx)
  /\ err' = 0
  /\ pc' = "done"
  /\ UNCHANGED << Frame, mem, kschd, idx, events >>

(* the walk started at idx = offset *)
cbc_decryption_expand_FromOffset ==
  /\ Step("uaes_cbc_decryption", {"validated"})
  /\ idx' = offset
  /\ kschd' = Expanded
  /\ events' = Append(events, Ev("key_expansion", -1))
  /\ pc' = "built"
  /\ UNCHANGED << Frame, mem, err >>

cbc_decryption_expand ==
  /\ Step("uaes_cbc_decryption", {"validated"})
  /\ idx' = offset - 1
  /\ kschd' = Expanded
  /\ events' = Append(events, Ev("key_expansion", -1))
  /\ pc' = "built"
  /\ UNCHANGED << Frame, mem, err >>

(* the inverse cipher applied one block too low *)
cbc_decryption_loop_OffByOne ==
  /\ Step("uaes_cbc_decryption", {"built", "walking"})
  /\ idx > 0
  /\ mem' = uaes_xor_iv(uaes_inverse_cipher(mem, BlockAt(idx - 1), kschd, Nk, Nb, Nr),
                        BlockAt(idx), BlockAt(idx - 1))
  /\ idx' = idx - 1
  /\ events' = events \o << Ev("inverse", idx), Ev("xor", idx) >>
  /\ pc' = "walking"
  /\ UNCHANGED << Frame, err, kschd >>

cbc_decryption_loop ==
  /\ Step("uaes_cbc_decryption", {"built", "walking"})
  /\ idx > 0
  /\ mem' = uaes_xor_iv(uaes_inverse_cipher(mem, BlockAt(idx), kschd, Nk, Nb, Nr),
                        BlockAt(idx), BlockAt(idx - 1))
  /\ idx' = idx - 1
  /\ events' = events \o << Ev("inverse", idx), Ev("xor", idx) >>
  /\ pc' = "walking"
  /\ UNCHANGED << Frame, err, kschd >>

cbc_decryption_last_NoIv ==
  /\ Step("uaes_cbc_decryption", {"built", "walking"})
  /\ ~(idx > 0)
  /\ mem' = uaes_inverse_cipher(mem, BlockAt(idx), kschd, Nk, Nb, Nr)
  /\ events' = events \o << Ev("inverse", idx), Ev("xor_iv", idx) >>
  /\ err' = 0
  /\ pc' = "done"
  /\ UNCHANGED << Frame, kschd, idx >>

cbc_decryption_last ==
  /\ Step("uaes_cbc_decryption", {"built", "walking"})
  /\ ~(idx > 0)
  /\ mem' = uaes_xor_iv(uaes_inverse_cipher(mem, BlockAt(idx), kschd, Nk, Nb, Nr),
                        BlockAt(idx), arg.iv)
  /\ events' = events \o << Ev("inverse", idx), Ev("xor_iv", idx) >>
  /\ err' = 0
  /\ pc' = "done"
  /\ UNCHANGED << Frame, kschd, idx >>

ecb_encryption_expand ==
  /\ Step("uaes_ecb_encryption", {"validated"})
  /\ kschd' = Expanded
  /\ events' = Append(events, Ev("key_expansion", -1))
  /\ pc' = "built"
  /\ UNCHANGED << Frame, mem, err, idx >>

(* each block XORed with the one before it, as in CBC *)
ecb_encryption_loop_Chained ==
  /\ Step("uaes_ecb_encryption", {"built", "walking"})
  /\ offset > idx
  /\ mem' = uaes_foward_cipher(
              IF idx > 0 THEN uaes_xor_iv(mem, BlockAt(idx), BlockAt(idx - 1)) ELSE mem,
              BlockAt(idx), kschd, Nk, Nb, Nr)
  /\ idx' = idx + 1
  /\ events' = Append(events, Ev("foward", idx))
  /\ pc' = "walking"
  /\ UNCHANGED << Frame, err, kschd >>

(* the loop test written with >= : one block too many *)
ecb_encryption_loop_OneMore ==
  /\ Step("uaes_ecb_encryption", {"built", "walking"})
  /\ offset >= idx
  /\ mem' = uaes_foward_cipher(mem, BlockAt(idx), kschd, Nk, Nb, Nr)
  /\ idx' = idx + 1
  /\ events' = Append(events, Ev("foward", idx))
  /\ pc' = "walking"
  /\ UNCHANGED << Frame, err, kschd >>

ecb_encryption_loop ==
  /\ Step("uaes_ecb_encryption", {"built", "walking"})
  /\ offset > idx
  /\ mem' = uaes_foward_cipher(mem, BlockAt(idx), kschd, Nk, Nb, Nr)
  /\ idx' = idx + 1
  /\ events' = Append(events, Ev("foward", idx))
  /\ pc' = "walking"
  /\ UNCHANGED << Frame, err, kschd >>

ecb_encryption_exit ==
  /\ Step("uaes_ecb_encryption", {"built", "walking"})
  /\ ~(offset > idx)
  /\ err' = 0
  /\ pc' = "done"
  /\ UNCHANGED << Frame, mem, kschd, idx, events >>

ecb_decryption_expand ==
  /\ Step("uaes_ecb_decryption", {"validated"})
  /\ kschd' = Expanded
  /\ events' = Append(events, Ev("key_expansion", -1))
  /\ pc' = "built"
  /\ UNCHANGED << Frame, mem, err, idx >>

(* the schedule rebuilt before every block *)
ecb_decryption_loop_Reexpand ==
  /\ Step("uaes_ecb_decryption", {"built", "walking"})
  /\ offset > idx
  /\ mem' = uaes_inverse_cipher(mem, BlockAt(idx), Expanded, Nk, Nb, Nr)
  /\ idx' = idx + 1
  /\ events' = events \o << Ev("key_expansion", 0 - 1), Ev("inverse", idx) >>
  /\ pc' = "walking"
  /\ UNCHANGED << Frame, err, kschd >>

ecb_decryption_loop ==
  /\ Step("uaes_ecb_decryption", {"built", "walking"})
  /\ offset > idx
  /\ mem' = uaes_inverse_cipher(mem, BlockAt(idx), kschd, Nk, Nb, Nr)
  /\ idx' = idx + 1
  /\ events' = Append(events, Ev("inverse", idx))
  /\ pc' = "walking"
  /\ UNCHANGED << Frame, err, kschd >>

ecb_decryption_exit ==
  /\ Step("uaes_ecb_decryption", {"built", "walking"})
  /\ ~(offset > idx)
  /\ err' = 0
  /\ pc' = "done"
  /\ UNCHANGED << Frame, mem, kschd, idx, events >>

SingleEnc == {"uaes128enc", "uaes192enc", "uaes256enc"}
SingleDec == {"uaes128dec", "uaes192dec", "uaes256dec"}

single_expand ==
  /\ pc = "validated" /\ fn \in SingleEnc \cup SingleDec
  /\ err' = 0
  /\ kschd' = Expanded
  /\ events' = Append(events, Ev("key_expansion", -1))
  /\ pc' = "built"
  /\ UNCHANGED << Frame, mem, idx >>

(* the cipher applied to size / 16 blocks *)
single_enc_cipher_BySize ==
  /\ pc = "built" /\ fn \in SingleEnc
  /\ mem' = IF arg.size \div 16 > 0
            THEN uaes_foward_cipher(mem, arg.buf, kschd, Nk, Nb, Nr) ELSE mem
  /\ events' = Append(events, Ev("foward", 0))
  /\ pc' = "done"
  /\ UNCHANGED << Frame, err, kschd, idx >>

single_enc_cipher ==
  /\ pc = "built" /\ fn \in SingleEnc
  /\ mem' = uaes_foward_cipher(mem, arg.buf, kschd, Nk, Nb, Nr)
  /\ events' = Append(events, Ev("foward", 0))
  /\ pc' = "done"
  /\ UNCHANGED << Frame, err, kschd, idx >>

single_dec_cipher ==
  /\ pc = "built" /\ fn \in SingleDec
  /\ mem' = uaes_inverse_cipher(mem, arg.buf, kschd, Nk, Nb, Nr)
  /\ events' = Append(events, Ev("inverse", 0))
  /\ pc' = "done"
  /\ UNCHANGED << Frame, err, kschd, idx >>

(* ---- return to the caller: the frame is gone, the result is err ---- *)
CallRecord ==
  [fn |-> fn, size |-> arg.size, mode |-> arg.mode, trace |-> trace_msk,
   key |-> Region(mem0, arg.key, uAES_MAX_KEY_SIZE),
   iv |-> IF arg.iv = NULL THEN << >> ELSE Region(mem0, arg.iv, uAES_BLOCK_SIZE),
   in |-> Region(mem0, arg.buf, uAES_MAX_INPUT_SIZE),
   out |-> Region(mem, arg.buf, uAES_MAX_INPUT_SIZE)]

Return ==
  /\ pc \in {"done", "failed"}
  /\ ret' = err
  /\ last' = IF err = 0 THEN [last EXCEPT ![arg.buf] = CallRecord] ELSE last
  /\ pc' = "idle"
  /\ fn' = "none"
  /\ arg' = NoArg
  /\ err' = 0 /\ kschd' = ZeroSchedule /\ Nk' = 0 /\ Nb' = 0 /\ Nr' = 0
  /\ idx' = 0 /\ offset' = 0
  /\ mem0' = mem
  /\ events' = << >>
  /\ UNCHANGED << mem, trace_msk, caller, ncalls, cipher >>

(* ---- the caller ---- *)
DataPtrs == {NULL} \cup bufs
KeyPtrs == {NULL, KeyAddr}
IvPtrs == {NULL, IvAddr}

Call ==
  \/ \E p \in DataPtrs, k \in KeyPtrs, v \in IvPtrs : uaes_cbc_encryption(p, k, v)
  \/ \E p \in DataPtrs, k \in KeyPtrs, v \in IvPtrs : uaes_cbc_decryption(p, k, v)
  \/ \E p \in DataPtrs, k \in KeyPtrs : uaes_ecb_encryption(p, k)
  \/ \E p \in DataPtrs, k \in KeyPtrs : uaes_ecb_decryption(p, k)
  \/ \E p \in DataPtrs, k \in KeyPtrs : uaes128enc(p, k)
  \/ \E p \in DataPtrs, k \in KeyPtrs : uaes192enc(p, k)
  \/ \E p \in DataPtrs, k \in KeyPtrs : uaes256enc(p, k)
  \/ \E p \in DataPtrs, k \in KeyPtrs : uaes128dec(p, k)
  \/ \E p \in DataPtrs, k \in KeyPtrs : uaes192dec(p, k)
  \/ \E p \in DataPtrs, k \in KeyPtrs : uaes256dec(p, k)

Next ==
  \/ Call
  \/ cbc_encryption_expand \/ cbc_encryption_first \/ cbc_encryption_loop
  \/ cbc_encryption_exit
  \/ cbc_decryption_expand \/ cbc_decryption_loop \/ cbc_decryption_last
  \/ ecb_encryption_expand \/ ecb_encryption_loop \/ ecb_encryption_exit
  \/ ecb_decryption_expand \/ ecb_decryption_loop \/ ecb_decryption_exit
  \/ single_expand \/ single_enc_cipher \/ single_dec_cipher
  \/ Return

Spec == Init /\ [][Next]_vars

(* A call in progress runs on: the statements of an entry point follow  *)
(* one another without waiting for anything. When the caller makes its   *)
(* next call is up to the caller.                                        *)
Running ==
  \/ cbc_encryption_expand \/ cbc_encryption_first \/ cbc_encryption_loop
  \/ cbc_encryption_exit
  \/ cbc_decryption_expand \/ cbc_decryption_loop \/ cbc_decryption_last
  \/ ecb_encryption_expand \/ ecb_encryption_loop \/ ecb_encryption_exit
  \/ ecb_decryption_expand \/ ecb_decryption_loop \/ ecb_decryption_exit
  \/ single_expand \/ single_enc_cipher \/ single_dec_cipher
  \/ Return

(* Whether a call returns depends on its entry point, its variant tag and *)
(* its size, never on the bytes: one key, and a size for every block      *)
(* count and for both rejections.                                         *)
FairSizes == {0, 1, 16, 17, 33, 49, 64, 65}
FairMemories ==
  { Layout(PlainText, PlainText, [i \in 0..(uAES_MAX_KEY_SIZE - 1) |-> i], v) :
      v \in TestIVs }
InitFair == InitWith(FairMemories, {DataA}, FairSizes)

SpecFair == InitFair /\ [][Next]_vars /\ WF_vars(Running)

(* ---- two data buffers and the trace mask: the setting of the claims ---- *)
(* ---- that compare two calls                                          ---- *)
PairSizes == {16, 48}
TraceMasks == {1}

uaes_set_trace_msk(msk) ==
  /\ pc = "idle"
  /\ trace_msk' = OrBits(trace_msk, msk, 8)
  /\ UNCHANGED << mem, caller, pc, fn, arg, locals, ret, mem0, events, last, ncalls,
                  cipher >>

InitPair ==
  /\ InitWith(TestMemories({PlainText, FlipBlock(PlainText, 1)}),
              {DataA, DataB}, PairSizes)
  /\ \A i \in 0..(uAES_MAX_KEY_SIZE - 1) : mem[KeyAddr + i] = i

NextPair ==
  \/ Next
  \/ \E msk \in TraceMasks : uaes_set_trace_msk(msk)

SpecPair == InitPair /\ [][NextPair]_vars

(* ---- the two block functions followed statement by statement ---- *)
(* uaes_foward_cipher and uaes_inverse_cipher on the arguments an entry *)
(* point passes them: a block of the caller's buffer and the schedule    *)
(* key_expansion has built for one of the three variants. The inverse    *)
(* cipher is run on the block the forward cipher has left.               *)
CipherBuf == DataA
NoKey == 0 - 1
Op(name, rk) == [op |-> name, rk |-> rk]
outer == << trace_msk, caller, pc, fn, arg, err, kschd, Nk, Nb, Nr, idx, offset,
            ret, mem0, events, last, ncalls >>

InitCipher ==
  /\ mem \in TestMemories({PlainText})
  /\ trace_msk = 0
  /\ bufs = {DataA}
  /\ suite = "ecb"
  /\ len = uAES_BLOCK_SIZE
  /\ variant \in uAES128..uAES256
  /\ pc = "idle"
  /\ fn = "none"
  /\ arg = NoArg
  /\ err = 0
  /\ Nk = NkOf(variant) /\ Nb = 4 /\ Nr = NrOf(variant)
  /\ kschd = key_expansion(ReadKey(mem, KeyAddr), ZeroSchedule, Nk, Nb * (Nr + 1))
  /\ idx = 0 /\ offset = 0
  /\ ret = 0
  /\ mem0 = mem
  /\ events = << >>
  /\ last = [p \in {DataA, DataB} |-> NoCall]
  /\ ncalls = 0
  /\ cipher_fn = "none" /\ block = ZeroBlock /\ round = 0 /\ at = "none"
  /\ ops = << >> /\ fwd_ops = << >>

ForwardReturned == cipher_fn = "none" /\ fwd_ops # << >> /\ ops = fwd_ops
InverseReturned == cipher_fn = "none" /\ fwd_ops # << >> /\ ops # fwd_ops

foward_cipher_enter ==
  /\ cipher_fn = "none" /\ fwd_ops = << >>
  /\ cipher_fn' = "uaes_foward_cipher"
  /\ block' = ReadBlock(mem, CipherBuf)
  /\ ops' = << >>
  /\ round' = 0
  /\ at' = "first_key"
  /\ UNCHANGED << mem, outer, fwd_ops >>

foward_cipher_first_key ==
  /\ cipher_fn = "uaes_foward_cipher" /\ at = "first_key"
  /\ block' = add_round_key(block, kschd, 0, Nb)
  /\ ops' = Append(ops, Op("add_round_key", 0))
  /\ round' = 1
  /\ at' = "loop"
  /\ UNCHANGED << mem, outer, cipher_fn, fwd_ops >>

(* the loop test written round <= Nr *)
foward_cipher_sub_Inclusive ==
  /\ cipher_fn = "uaes_foward_cipher" /\ at = "loop"
  /\ round <= Nr
  /\ block' = sub_block(block)
  /\ ops' = Append(ops, Op("sub_block", NoKey))
  /\ round' = round
  /\ at' = "shift"
  /\ UNCHANGED << mem, outer, cipher_fn, fwd_ops >>

foward_cipher_sub ==
  /\ cipher_fn = "uaes_foward_cipher" /\ at = "loop"
  /\ round < Nr
  /\ block' = sub_block(block)
  /\ ops' = Append(ops, Op("sub_block", NoKey))
  /\ round' = round
  /\ at' = "shift"
  /\ UNCHANGED << mem, outer, cipher_fn, fwd_ops >>

foward_cipher_shift ==
  /\ cipher_fn = "uaes_foward_cipher" /\ at = "shift"
  /\ block' = shift_rows(block)
  /\ ops' = Append(ops, Op("shift_rows", NoKey))
  /\ round' = round
  /\ at' = "mix"
  /\ UNCHANGED << mem, outer, cipher_fn, fwd_ops >>

foward_cipher_mix ==
  /\ cipher_fn = "uaes_foward_cipher" /\ at = "mix"
  /\ block' = mix_columns(block)
  /\ ops' = Append(ops, Op("mix_columns", NoKey))
  /\ round' = round
  /\ at' = "key"
  /\ UNCHANGED << mem, outer, cipher_fn, fwd_ops >>

foward_cipher_key ==
  /\ cipher_fn = "uaes_foward_cipher" /\ at = "key"
  /\ block' = add_round_key(block, kschd, round, Nb)
  /\ ops' = Append(ops, Op("add_round_key", round))
  /\ round' = round + 1
  /\ at' = "loop"
  /\ UNCHANGED << mem, outer, cipher_fn, fwd_ops >>

foward_cipher_last_sub ==
  /\ cipher_fn = "uaes_foward_cipher" /\ at = "loop"
  /\ ~(round < Nr)
  /\ block' = sub_block(block)
  /\ ops' = Append(ops, Op("sub_block", NoKey))
  /\ round' = round
  /\ at' = "last_shift"
  /\ UNCHANGED << mem, outer, cipher_fn, fwd_ops >>

foward_cipher_last_shift ==
  /\ cipher_fn = "uaes_foward_cipher" /\ at = "last_shift"
  /\ block' = shift_rows(block)
  /\ ops' = Append(ops, Op("shift_rows", NoKey))
  /\ round' = round
  /\ at' = "last_key"
  /\ UNCHANGED << mem, outer, cipher_fn, fwd_ops >>

foward_cipher_last_key ==
  /\ cipher_fn = "uaes_foward_cipher" /\ at = "last_key"
  /\ block' = add_round_key(block, kschd, Nr, Nb)
  /\ ops' = Append(ops, Op("add_round_key", Nr))
  /\ round' = round
  /\ at' = "copy_out"
  /\ UNCHANGED << mem, outer, cipher_fn, fwd_ops >>

foward_cipher_return ==
  /\ cipher_fn = "uaes_foward_cipher" /\ at = "copy_out"
  /\ mem' = WriteBlock(mem, CipherBuf, block)
  /\ fwd_ops' = ops
  /\ cipher_fn' = "none"
  /\ at' = "none"
  /\ UNCHANGED << outer, block, round, ops >>

inverse_cipher_enter ==
  /\ ForwardReturned
  /\ cipher_fn' = "uaes_inverse_cipher"
  /\ block' = ReadBlock(mem, CipherBuf)
  /\ ops' = << >>
  /\ round' = 0
  /\ at' = "first_key"
  /\ UNCHANGED << mem, outer, fwd_ops >>

(* the loop started at round = Nr *)
inverse_cipher_first_key_FromNr ==
  /\ cipher_fn = "uaes_inverse_cipher" /\ at = "first_key"
  /\ block' = add_round_key(block, kschd, Nr, Nb)
  /\ ops' = Append(ops, Op("add_round_key", Nr))
  /\ round' = Nr
  /\ at' = "loop"
  /\ UNCHANGED << mem, outer, cipher_fn, fwd_ops >>

inverse_cipher_first_key ==
  /\ cipher_fn = "uaes_inverse_cipher" /\ at = "first_key"
  /\ block' = add_round_key(block, kschd, Nr, Nb)
  /\ ops' = Append(ops, Op("add_round_key", Nr))
  /\ round' = Nr - 1
  /\ at' = "loop"
  /\ UNCHANGED << mem, outer, cipher_fn, fwd_ops >>

inverse_cipher_shift ==
  /\ cipher_fn = "uaes_inverse_cipher" /\ at = "loop"
  /\ round > 0
  /\ block' = inv_shift_rows(block)
  /\ ops' = Append(ops, Op("inv_shift_rows", NoKey))
  /\ round' = round
  /\ at' = "sub"
  /\ UNCHANGED << mem, outer, cipher_fn, fwd_ops >>

inverse_cipher_sub ==
  /\ cipher_fn = "uaes_inverse_cipher" /\ at = "sub"
  /\ block' = inv_sub_block(block)
  /\ ops' = Append(ops, Op("inv_sub_block", NoKey))
  /\ round' = round
  /\ at' = "key"
  /\ UNCHANGED << mem, outer, cipher_fn, fwd_ops >>

inverse_cipher_key ==
  /\ cipher_fn = "uaes_inverse_cipher" /\ at = "key"
  /\ block' = add_round_key(block, kschd, round, Nb)
  /\ ops' = Append(ops, Op("add_round_key", round))
  /\ round' = round
  /\ at' = "mix"
  /\ UNCHANGED << mem, outer, cipher_fn, fwd_ops >>

inverse_cipher_mix ==
  /\ cipher_fn = "uaes_inverse_cipher" /\ at = "mix"
  /\ block' = inv_mix_columns(block)
  /\ ops' = Append(ops, Op("inv_mix_columns", NoKey))
  /\ round' = round - 1
  /\ at' = "loop"
  /\ UNCHANGED << mem, outer, cipher_fn, fwd_ops >>

inverse_cipher_last_shift ==
  /\ cipher_fn = "uaes_inverse_cipher" /\ at = "loop"
  /\ ~(round > 0)
  /\ block' = inv_shift_rows(block)
  /\ ops' = Append(ops, Op("inv_shift_rows", NoKey))
  /\ round' = round
  /\ at' = "last_sub"
  /\ UNCHANGED << mem, outer, cipher_fn, fwd_ops >>

inverse_cipher_last_sub ==
  /\ cipher_fn = "uaes_inverse_cipher" /\ at = "last_sub"
  /\ block' = inv_sub_block(block)
  /\ ops' = Append(ops, Op("inv_sub_block", NoKey))
  /\ round' = round
  /\ at' = "last_key"
  /\ UNCHANGED << mem, outer, cipher_fn, fwd_ops >>

inverse_cipher_last_key ==
  /\ cipher_fn = "uaes_inverse_cipher" /\ at = "last_key"
  /\ block' = add_round_key(block, kschd, 0, Nb)
  /\ ops' = Append(ops, Op("add_round_key", 0))
  /\ round' = round
  /\ at' = "copy_out"
  /\ UNCHANGED << mem, outer, cipher_fn, fwd_ops >>

inverse_cipher_return ==
  /\ cipher_fn = "uaes_inverse_cipher" /\ at = "copy_out"
  /\ mem' = WriteBlock(mem, CipherBuf, block)
  /\ cipher_fn' = "none"
  /\ at' = "none"
  /\ UNCHANGED << outer, block, round, ops, fwd_ops >>

NextCipher ==
  \/ foward_cipher_enter
  \/ foward_cipher_first_key
  \/ foward_cipher_sub
  \/ foward_cipher_shift
  \/ foward_cipher_mix
  \/ foward_cipher_key
  \/ foward_cipher_last_sub
  \/ foward_cipher_last_shift
  \/ foward_cipher_last_key
  \/ foward_cipher_return
  \/ inverse_cipher_enter
  \/ inverse_cipher_first_key
  \/ inverse_cipher_shift
  \/ inverse_cipher_sub
  \/ inverse_cipher_key
  \/ inverse_cipher_mix
  \/ inverse_cipher_last_shift
  \/ inverse_cipher_last_sub
  \/ inverse_cipher_last_key
  \/ inverse_cipher_return

SpecCipher == InitCipher /\ [][NextCipher]_vars

(* ======================= properties ======================= *)
CbcFns == {"uaes_cbc_encryption", "uaes_cbc_decryption"}
EcbFns == {"uaes_ecb_encryption", "uaes_ecb_decryption"}
MultiFns == CbcFns \cup EcbFns
SingleFns == SingleEnc \cup SingleDec
InCall == fn # "none"
Returning == pc \in {"done", "failed"}

SizeCap(f) == IF f \in MultiFns THEN 64 ELSE 16
CeilBlocks(size) == (size + 15) \div 16
Blk(m, p, j) == ReadBlock(m, p + 16 * j)
XorBlocks(x, y) == Tab16(LAMBDA i : Xor(At(x, i), At(y, i)))
DataOf(m) == Region(m, arg.buf, 64)
KeyOf(m) == Region(m, KeyAddr, 32)
IvOf(m) == Region(m, IvAddr, 16)

IsTransform(e) == e.op \in {"foward", "inverse"}
Transforms == SelectSeq(events, IsTransform)
Outside(a, p, n) == a < p \/ a >= p + n

Rejectable ==
  \/ arg.key = NULL
  \/ arg.buf = NULL
  \/ (fn \in CbcFns /\ arg.iv = NULL)
  \/ arg.size = 0
  \/ arg.size > SizeCap(fn)
  \/ (fn \in MultiFns /\ arg.mode >= 3)

(* C1: a call with a null key, null data, (CBC) null IV, size 0, size   *)
(* above the cap (64 multi-block, 16 single-block) or (multi-block) a   *)
(* variant tag >= 3 fails with -1, and nothing was expanded, XORed or   *)
(* transformed: memory is byte for byte what it was at call time.       *)
C1_RejectionWithoutMutation ==
  (InCall /\ Rejectable) =>
    /\ pc = "failed"
    /\ err = -1
    /\ mem = mem0
    /\ events = << >>

C1_Witness ==
  /\ pc = "failed" /\ fn = "uaes_cbc_decryption"
  /\ arg.buf # NULL /\ arg.key # NULL /\ arg.iv # NULL
  /\ arg.size = 65 /\ arg.mode = uAES192
  /\ err = -1 /\ mem = mem0

Follows(f) ==
  /\ arg.buf # NULL /\ arg.key # NULL
  /\ last[arg.buf].fn = f
  /\ last[arg.buf].size = arg.size
  /\ last[arg.buf].mode = arg.mode
  /\ last[arg.buf].key = Region(mem0, arg.key, 32)
  /\ last[arg.buf].out = DataOf(mem0)
AlignedSizes == {16, 32, 48, 64}

(* C2: CBC round trip. A successful uaes_cbc_decryption that starts on  *)
(* the output of the preceding successful uaes_cbc_encryption of the     *)
(* same buffer, with the same key, IV, size (16, 32, 48 or 64) and       *)
(* variant, returns 0 and leaves the buffer as it was before encryption. *)
C2_CbcRoundTrip ==
  ( /\ Returning /\ fn = "uaes_cbc_decryption"
    /\ arg.size \in AlignedSizes /\ arg.mode \in {uAES128, uAES192, uAES256}
    /\ Follows("uaes_cbc_encryption")
    /\ arg.iv # NULL /\ last[arg.buf].iv = Region(mem0, arg.iv, 16) ) =>
      /\ pc = "done" /\ err = 0
      /\ DataOf(mem) = last[arg.buf].in

C2_Witness ==
  /\ pc = "done" /\ fn = "uaes_cbc_decryption" /\ err = 0
  /\ arg.size = 64 /\ arg.mode = uAES256
  /\ Follows("uaes_cbc_encryption")
  /\ DataOf(mem) = last[arg.buf].in
  /\ \A j \in 0..3 : Blk(mem0, arg.buf, j) # Blk(mem, arg.buf, j)

(* C3: ECB round trip. The same for uaes_ecb_decryption after            *)
(* uaes_ecb_encryption.                                                  *)
C3_EcbRoundTrip ==
  ( /\ Returning /\ fn = "uaes_ecb_decryption"
    /\ arg.size \in AlignedSizes /\ arg.mode \in {uAES128, uAES192, uAES256}
    /\ Follows("uaes_ecb_encryption") ) =>
      /\ pc = "done" /\ err = 0
      /\ DataOf(mem) = last[arg.buf].in

C3_Witness ==
  /\ pc = "done" /\ fn = "uaes_ecb_decryption" /\ err = 0
  /\ arg.size = 48 /\ arg.mode = uAES192
  /\ Follows("uaes_ecb_encryption")
  /\ DataOf(mem) = last[arg.buf].in
  /\ \A j \in 0..2 : Blk(mem0, arg.buf, j) # Blk(mem, arg.buf, j)

EBlock(b) == ForwardBlock(b, kschd, 4, Nr)
DBlock(b) == InverseBlock(b, kschd, 4, Nr)

(* C4: CBC encryption chaining. When uaes_cbc_encryption is done over    *)
(* n = ceil(size/16) blocks, block 0 of the buffer is E(P[0] XOR IV) and *)
(* block i >= 1 is E(P[i] XOR C[i-1]), P the blocks at call time, C the  *)
(* blocks at return and E the forward cipher under the call's schedule.  *)
C4_CbcEncryptionChaining ==
  (pc = "done" /\ fn = "uaes_cbc_encryption") =>
    /\ Blk(mem, arg.buf, 0) =
         EBlock(XorBlocks(Blk(mem0, arg.buf, 0), ReadBlock(mem0, arg.iv)))
    /\ \A i \in 1..(CeilBlocks(arg.size) - 1) :
         Blk(mem, arg.buf, i) =
           EBlock(XorBlocks(Blk(mem0, arg.buf, i), Blk(mem, arg.buf, i - 1)))

C4_Witness ==
  /\ pc = "done" /\ fn = "uaes_cbc_encryption" /\ arg.size = 49
  /\ arg.mode = uAES128
  /\ \A i \in 1..3 :
       /\ Blk(mem, arg.buf, i) =
            EBlock(XorBlocks(Blk(mem0, arg.buf, i), Blk(mem, arg.buf, i - 1)))
       /\ Blk(mem, arg.buf, i) #
            EBlock(XorBlocks(Blk(mem0, arg.buf, i), ReadBlock(mem0, arg.iv)))

(* C5: CBC decryption sees the original ciphertext. While                *)
(* uaes_cbc_decryption walks idx downwards, every block at or below idx  *)
(* still holds the bytes it had at call time (so block idx-1 is original *)
(* when block idx is XORed with it); at return P[i] = D(C[i]) XOR C[i-1] *)
(* for i >= 1 and P[0] = D(C[0]) XOR IV, C the blocks at call time.      *)
C5_CbcDecryptionSeesCiphertext ==
  (fn = "uaes_cbc_decryption" /\ pc \in {"built", "walking", "done"}) =>
    /\ pc # "done" =>
         /\ idx >= 0 /\ idx < CeilBlocks(arg.size)
         /\ \A j \in 0..idx : Blk(mem, arg.buf, j) = Blk(mem0, arg.buf, j)
         /\ \A j \in (idx + 1)..(CeilBlocks(arg.size) - 1) :
              Blk(mem, arg.buf, j) =
                XorBlocks(DBlock(Blk(mem0, arg.buf, j)), Blk(mem0, arg.buf, j - 1))
    /\ pc = "done" =>
         /\ Len(Transforms) = CeilBlocks(arg.size)
         /\ \A k \in 1..Len(Transforms) :
              Transforms[k] = Ev("inverse", CeilBlocks(arg.size) - k)
         /\ Blk(mem, arg.buf, 0) =
              XorBlocks(DBlock(Blk(mem0, arg.buf, 0)), ReadBlock(mem0, arg.iv))
         /\ \A i \in 1..(CeilBlocks(arg.size) - 1) :
              Blk(mem, arg.buf, i) =
                XorBlocks(DBlock(Blk(mem0, arg.buf, i)), Blk(mem0, arg.buf, i - 1))

C5_Witness ==
  /\ fn = "uaes_cbc_decryption" /\ pc = "walking" /\ idx = 1
  /\ arg.size = 64 /\ arg.mode = uAES256
  /\ Blk(mem, arg.buf, 2) # Blk(mem0, arg.buf, 2)
  /\ Blk(mem, arg.buf, 1) = Blk(mem0, arg.buf, 1)

(* C6: block-walk length. A multi-block call that is done applied its   *)
(* transform (forward for encryption, inverse for decryption) to the     *)
(* blocks 0 .. ceil(size/16)-1, each exactly once, and no byte outside   *)
(* those blocks has changed.                                             *)
C6_BlockWalkLength ==
  (pc = "done" /\ fn \in MultiFns) =>
    LET n == CeilBlocks(arg.size)
        op == IF fn \in {"uaes_cbc_encryption", "uaes_ecb_encryption"}
              THEN "foward" ELSE "inverse"
    IN  /\ arg.size \in 1..64
        /\ Len(Transforms) = n
        /\ { Transforms[k].blk : k \in 1..Len(Transforms) } = 0..(n - 1)
        /\ \A k \in 1..Len(Transforms) : Transforms[k].op = op
        /\ \A a \in Addrs : Outside(a, arg.buf, 16 * n) => mem[a] = mem0[a]

C6_Witness ==
  /\ pc = "done" /\ fn = "uaes_ecb_decryption" /\ arg.size = 17
  /\ Len(Transforms) = 2
  /\ Blk(mem, arg.buf, 0) # Blk(mem0, arg.buf, 0)
  /\ Blk(mem, arg.buf, 1) # Blk(mem0, arg.buf, 1)
  /\ Blk(mem, arg.buf, 2) = Blk(mem0, arg.buf, 2)

NkOfSingle(f) ==
  IF f \in {"uaes128enc", "uaes128dec"} THEN 4
  ELSE IF f \in {"uaes192enc", "uaes192dec"} THEN 6 ELSE 8
OwnSchedule(f) ==
  key_expansion(ReadKey(mem0, arg.key), ZeroSchedule, NkOfSingle(f),
                4 * (NkOfSingle(f) + 7))

(* C7: single-block entry points. For every size in 1..16 with non-null  *)
(* buffer and key the call does not fail, and when it is done it has     *)
(* returned 0 after one key expansion and one application of the         *)
(* forward (enc) or inverse (dec) cipher to bytes 0..15, whatever the    *)
(* size; nothing else has changed.                                       *)
C7_SingleBlockAnySize ==
  (InCall /\ fn \in SingleFns) =>
    /\ (arg.size \in 1..16 /\ arg.buf # NULL /\ arg.key # NULL) => pc # "failed"
    /\ pc = "done" =>
         /\ err = 0
         /\ events = << Ev("key_expansion", -1),
                        Ev(IF fn \in SingleEnc THEN "foward" ELSE "inverse", 0) >>
         /\ Blk(mem, arg.buf, 0) =
              IF fn \in SingleEnc
              THEN ForwardBlock(Blk(mem0, arg.buf, 0), OwnSchedule(fn), 4,
                                NkOfSingle(fn) + 6)
              ELSE InverseBlock(Blk(mem0, arg.buf, 0), OwnSchedule(fn), 4,
                                NkOfSingle(fn) + 6)
         /\ \A a \in Addrs : Outside(a, arg.buf, 16) => mem[a] = mem0[a]

C7_Witness ==
  /\ pc = "done" /\ fn = "uaes192enc" /\ arg.size = 1 /\ err = 0
  /\ \A i \in 0..15 : mem[arg.buf + i] # mem0[arg.buf + i]

(* C8: key and IV are read-only. At every point of every call, failed    *)
(* or not, the key, the IV and every other byte outside the data buffer  *)
(* passed to the call are what they were at call time.                   *)
C8_KeyAndIvReadOnly ==
  InCall =>
    /\ KeyOf(mem) = KeyOf(mem0)
    /\ IvOf(mem) = IvOf(mem0)
    /\ \A a \in Addrs :
         (arg.buf = NULL \/ Outside(a, arg.buf, 64)) => mem[a] = mem0[a]

C8_Witness ==
  /\ pc = "done" /\ fn = "uaes_cbc_encryption" /\ arg.size = 64
  /\ KeyOf(mem) = KeyOf(mem0) /\ IvOf(mem) = IvOf(mem0)
  /\ \A j \in 0..3 : Blk(mem, arg.buf, j) # Blk(mem0, arg.buf, j)

Other == IF arg.buf = DataA THEN DataB ELSE DataA
IvIn == IF arg.iv = NULL THEN << >> ELSE Region(mem0, arg.iv, 16)
SameCall(r) ==
  /\ r.fn = fn /\ r.size = arg.size /\ r.mode = arg.mode
  /\ r.key = Region(mem0, arg.key, 32)
  /\ r.iv = IvIn

RecBlk(r, j) == Tab16(LAMBDA i : r[16 * j + i])
DifferOnlyIn(x, y, i, n) ==
  /\ RecBlk(x, i) # RecBlk(y, i)
  /\ \A j \in 0..(n - 1) : j # i => RecBlk(x, j) = RecBlk(y, j)

(* C10: ECB locality. Two uaes_ecb_encryption calls with the same key,   *)
(* size and variant whose plaintexts differ only in block i give         *)
(* ciphertexts that are equal in every other block and differ in block i.*)
C10_EcbLocality ==
  ( /\ pc = "done" /\ fn = "uaes_ecb_encryption"
    /\ SameCall(last[Other]) ) =>
      \A i \in 0..(CeilBlocks(arg.size) - 1) :
        DifferOnlyIn(DataOf(mem0), last[Other].in, i, CeilBlocks(arg.size)) =>
          DifferOnlyIn(DataOf(mem), last[Other].out, i, CeilBlocks(arg.size))

C10_Witness ==
  /\ pc = "done" /\ fn = "uaes_ecb_encryption" /\ arg.size = 48
  /\ SameCall(last[Other])
  /\ DifferOnlyIn(DataOf(mem0), last[Other].in, 1, 3)
  /\ DifferOnlyIn(DataOf(mem), last[Other].out, 1, 3)


AvalancheFrom(x, y, i, n) ==
  /\ \A j \in 0..(n - 1) : j < i => RecBlk(x, j) = RecBlk(y, j)
  /\ \A j \in 0..(n - 1) : j >= i => RecBlk(x, j) # RecBlk(y, j)

(* C11: CBC avalanche. Two uaes_cbc_encryption calls with the same key,  *)
(* IV, size and variant whose plaintexts differ only in block i give     *)
(* ciphertexts that are equal in every block before i and differ in      *)
(* block i and in every block after it.                                  *)
C11_CbcAvalanche ==
  ( /\ pc = "done" /\ fn = "uaes_cbc_encryption"
    /\ SameCall(last[Other]) ) =>
      \A i \in 0..(CeilBlocks(arg.size) - 1) :
        DifferOnlyIn(DataOf(mem0), last[Other].in, i, CeilBlocks(arg.size)) =>
          AvalancheFrom(DataOf(mem), last[Other].out, i, CeilBlocks(arg.size))

C11_Witness ==
  /\ pc = "done" /\ fn = "uaes_cbc_encryption" /\ arg.size = 48
  /\ SameCall(last[Other])
  /\ DifferOnlyIn(DataOf(mem0), last[Other].in, 1, 3)
  /\ RecBlk(DataOf(mem), 0) = RecBlk(last[Other].out, 0)
  /\ RecBlk(DataOf(mem), 1) # RecBlk(last[Other].out, 1)
  /\ RecBlk(DataOf(mem), 2) # RecBlk(last[Other].out, 2)


(* FIPS-197 appendix C: the example plaintext, the key bytes 00 01 02 ... *)
(* and the ciphertexts of C.1 (128), C.2 (192) and C.3 (256).             *)
KatPlain == << 0, 17, 34, 51, 68, 85, 102, 119, 136, 153, 170, 187, 204, 221, 238, 255 >>
KatKey == [i \in 0..(uAES_MAX_KEY_SIZE - 1) |-> i]
KatCipher(f) ==
  IF f = "uaes128enc" THEN << 105, 196, 224, 216, 106, 123, 4, 48, 216, 205, 183, 128, 112, 180, 197, 90 >>
  ELSE IF f = "uaes192enc" THEN << 221, 169, 124, 164, 134, 76, 223, 224, 110, 175, 112, 160, 236, 13, 113, 145 >>
  ELSE << 142, 162, 183, 202, 81, 103, 69, 191, 234, 252, 73, 144, 75, 73, 96, 137 >>
KatCall ==
  /\ fn \in SingleEnc /\ arg.size = uAES_BLOCK_SIZE
  /\ arg.buf # NULL /\ arg.key # NULL
  /\ Blk(mem0, arg.buf, 0) = KatPlain
  /\ Region(mem0, arg.key, uAES_MAX_KEY_SIZE) = KatKey

(* C12: FIPS-197 known answers. uaes128enc, uaes192enc and uaes256enc    *)
(* called with size 16 on the plaintext 00112233445566778899aabbccddeeff *)
(* and the key bytes 00 01 02 ... return 0 and leave the buffer equal to *)
(* 69c4e0d8..., dda97ca4... and 8ea2b7ca... respectively.                *)
C12_KnownAnswers ==
  (Returning /\ KatCall) =>
    /\ pc = "done" /\ err = 0
    /\ Blk(mem, arg.buf, 0) = KatCipher(fn)

C12_Witness ==
  /\ pc = "done" /\ fn = "uaes256enc" /\ KatCall
  /\ err = 0
  /\ Blk(mem, arg.buf, 0) = KatCipher("uaes256enc")


(* The sequence of primitives of the forward cipher for nr rounds:      *)
(* add_round_key(0); sub, shift, mix, add_round_key(r) for r = 1..nr-1;  *)
(* sub, shift, add_round_key(nr).                                        *)
FowardSequence(nr) ==
  [k \in 1..(4 * nr) |->
     IF k = 1 THEN Op("add_round_key", 0)
     ELSE LET r == ((k - 2) \div 4) + 1
              j == (k - 2) % 4
          IN  IF j = 0 THEN Op("sub_block", NoKey)
              ELSE IF j = 1 THEN Op("shift_rows", NoKey)
              ELSE IF j = 2 THEN (IF r < nr THEN Op("mix_columns", NoKey)
                                  ELSE Op("add_round_key", nr))
              ELSE Op("add_round_key", r)]
IsPrefixOf(s, t, n) == Len(s) <= n /\ \A k \in 1..Len(s) : s[k] = t[k]
IsKeyOp(e) == e.op = "add_round_key"
IsMixOp(e) == e.op \in {"mix_columns", "inv_mix_columns"}
KeyOps(s) == SelectSeq(s, IsKeyOp)
FowardDone ==
  (cipher_fn = "uaes_foward_cipher" /\ at = "copy_out") \/ ForwardReturned

(* C13: forward cipher round structure. uaes_foward_cipher calls         *)
(* add_round_key(0), then for r = 1 .. Nr-1 in ascending order           *)
(* sub_block, shift_rows, mix_columns, add_round_key(r), then sub_block, *)
(* shift_rows, add_round_key(Nr) without mix_columns: at every point the *)
(* calls made so far are a prefix of that sequence, at the end they are  *)
(* the whole of it, the round keys 0..Nr have been used once each in     *)
(* ascending order, mix_columns has been applied Nr-1 times, and the     *)
(* block written back is the forward cipher of the block read.           *)
C13_ForwardRoundStructure ==
  /\ cipher_fn = "uaes_foward_cipher" => IsPrefixOf(ops, FowardSequence(Nr), 4 * Nr)
  /\ FowardDone =>
       /\ Len(ops) = 4 * Nr
       /\ Len(KeyOps(ops)) = Nr + 1
       /\ \A k \in 1..(Nr + 1) : KeyOps(ops)[k].rk = k - 1
       /\ Len(SelectSeq(ops, IsMixOp)) = Nr - 1
       /\ Nr - 1 \in {9, 11, 13}
  /\ ForwardReturned =>
       Blk(mem, CipherBuf, 0) = ForwardBlock(Blk(mem0, CipherBuf, 0), kschd, Nb, Nr)

C13_Witness ==
  /\ ForwardReturned /\ Nr = 14
  /\ Len(fwd_ops) = 56
  /\ fwd_ops[54] = Op("sub_block", NoKey)
  /\ fwd_ops[55] = Op("shift_rows", NoKey)
  /\ fwd_ops[56] = Op("add_round_key", 14)
  /\ Blk(mem, CipherBuf, 0) # Blk(mem0, CipherBuf, 0)


(* The sequence of primitives of the inverse cipher for nr rounds:      *)
(* add_round_key(nr); inv_shift, inv_sub, add_round_key(r), inv_mix for  *)
(* r = nr-1 down to 1; inv_shift, inv_sub, add_round_key(0).             *)
InverseSequence(nr) ==
  [k \in 1..(4 * nr) |->
     IF k = 1 THEN Op("add_round_key", nr)
     ELSE LET r == (nr - 1) - ((k - 2) \div 4)
              j == (k - 2) % 4
          IN  IF j = 0 THEN Op("inv_shift_rows", NoKey)
              ELSE IF j = 1 THEN Op("inv_sub_block", NoKey)
              ELSE IF j = 2 THEN Op("add_round_key", r)
              ELSE Op("inv_mix_columns", NoKey)]
InverseOp(e) ==
  IF e.op = "sub_block" THEN Op("inv_sub_block", NoKey)
  ELSE IF e.op = "shift_rows" THEN Op("inv_shift_rows", NoKey)
  ELSE IF e.op = "mix_columns" THEN Op("inv_mix_columns", NoKey)
  ELSE e
Mirror(s) == [k \in 1..Len(s) |-> InverseOp(s[Len(s) + 1 - k])]
InverseDone ==
  (cipher_fn = "uaes_inverse_cipher" /\ at = "copy_out") \/ InverseReturned

(* C14: inverse cipher round structure. uaes_inverse_cipher calls        *)
(* add_round_key(Nr), then for round = Nr-1 down to 1 inv_shift_rows,    *)
(* inv_sub_block, add_round_key(round), inv_mix_columns, then            *)
(* inv_shift_rows, inv_sub_block, add_round_key(0): at every point the   *)
(* calls made so far are a prefix of that sequence, at the end they are  *)
(* the whole of it and are the calls of the forward cipher in reverse    *)
(* order with each primitive replaced by its inverse, the round keys     *)
(* Nr..0 have been used once each in descending order, and the block     *)
(* written back is the inverse cipher of the block read.                 *)
C14_InverseRoundStructure ==
  /\ cipher_fn = "uaes_inverse_cipher" => IsPrefixOf(ops, InverseSequence(Nr), 4 * Nr)
  /\ InverseDone =>
       /\ Len(ops) = 4 * Nr
       /\ Len(fwd_ops) = Len(ops)
       /\ \A k \in 1..Len(ops) : ops[k] = Mirror(fwd_ops)[k]
       /\ Len(KeyOps(ops)) = Nr + 1
       /\ \A k \in 1..(Nr + 1) : KeyOps(ops)[k].rk = Nr + 1 - k
       /\ Len(SelectSeq(ops, IsMixOp)) = Nr - 1
  /\ InverseReturned =>
       /\ Blk(mem, CipherBuf, 0) =
            InverseBlock(ForwardBlock(Blk(mem0, CipherBuf, 0), kschd, Nb, Nr), kschd, Nb, Nr)
       /\ Blk(mem, CipherBuf, 0) = Blk(mem0, CipherBuf, 0)

C14_Witness ==
  /\ InverseReturned /\ Nr = 12
  /\ Len(ops) = 48
  /\ ops[1] = Op("add_round_key", 12)
  /\ ops[2] = Op("inv_shift_rows", NoKey)
  /\ ops[5] = Op("inv_mix_columns", NoKey)
  /\ ops[48] = Op("add_round_key", 0)
  /\ fwd_ops[1] = Op("add_round_key", 0)
  /\ Blk(mem, CipherBuf, 0) = Blk(mem0, CipherBuf, 0)


IsExpansion(e) == e.op = "key_expansion"
Expansions == SelectSeq(events, IsExpansion)
(* what holds at each position of a call of a multi-block entry point *)
CallShape ==
  fn \in MultiFns =>
    /\ pc \in {"validated", "built", "walking", "done", "failed"}
    /\ pc \in {"validated", "failed"} => events = << >> /\ mem = mem0
    /\ pc = "built" => events = << Ev("key_expansion", 0 - 1) >> /\ mem = mem0
    /\ pc \in {"walking", "done"} =>
         /\ Len(Expansions) = 1
         /\ IsExpansion(events[1])
         /\ Len(events) > 1
    /\ pc = "validated" => ~Rejectable
    /\ pc = "failed" => Rejectable
    /\ err = (IF pc = "done" THEN 0 ELSE 0 - 1)
(* the moves between positions *)
CallStep ==
  (fn \in MultiFns \/ fn' \in MultiFns) =>
    \/ pc = "idle" /\ pc' \in {"validated", "failed"}
    \/ pc = "validated" /\ pc' = "built"
    \/ pc = "built" /\ pc' = "walking"
    \/ pc = "walking" /\ pc' \in {"walking", "done"}
    \/ pc = "built" /\ pc' = "done" /\ Len(Transforms') = Len(Transforms) + 1
    \/ pc = "done" /\ pc' = "idle" /\ ret' = 0
    \/ pc = "failed" /\ pc' = "idle" /\ ret' = 0 - 1

(* C15: per-call state machine. A call of a multi-block entry point      *)
(* moves Idle -> Validated -> Schedule-Built -> Block-Walking -> Done or *)
(* Idle -> Failed; key_expansion is invoked exactly once in a successful *)
(* call, after validation and before the first XOR or block transform,   *)
(* never during the walk and never in a call that returns -1; the call   *)
(* returns 0 exactly when Done is reached.                               *)
C15_PerCallStateMachine == [](CallShape) /\ [][CallStep]_vars

C15_Witness ==
  /\ pc = "done" /\ fn = "uaes_ecb_decryption" /\ arg.size = 64
  /\ Len(events) = 5
  /\ IsExpansion(events[1])
  /\ Len(Transforms) = 4
  /\ err = 0


ScheduleParameters == { << 4, 4, 10 >>, << 6, 4, 12 >>, << 8, 4, 14 >> }
Capacity(k) == Cardinality(DOMAIN k)
(* key_expansion is about to be invoked, or has been *)
Expanding == InCall /\ pc \in {"validated", "built", "walking", "done"}

Walked == pc \in {"built", "walking", "done"}
(* the block indices used so far, and the index about to be used *)
IndexInRange ==
  (InCall /\ fn \in MultiFns /\ Walked) =>
    /\ offset = CeilBlocks(arg.size) /\ offset >= 1 /\ offset <= 4
    /\ \A k \in 1..Len(events) :
         ~IsExpansion(events[k]) =>
           /\ 0 <= events[k].blk /\ events[k].blk < offset
           /\ events[k].op = "xor" => events[k].blk >= 1
    /\ 0 <= idx /\ idx <= offset
    /\ fn = "uaes_cbc_decryption" => idx <= offset - 1
    /\ \A a \in Addrs : Outside(a, arg.buf, uAES_MAX_INPUT_SIZE) => mem[a] = mem0[a]
(* a step that transforms a block moves idx by one, up or down *)
IndexStep ==
  (fn \in MultiFns /\ fn' = fn /\ Transforms' # Transforms) =>
    IF fn = "uaes_cbc_decryption"
    THEN (idx >= 1 /\ idx' = idx - 1) \/ (idx = 0 /\ idx' = 0 /\ pc' = "done")
    ELSE idx' = idx + 1 /\ idx' <= offset

(* C17: block index in range, and termination. In every call that       *)
(* passes validation every block index used satisfies                    *)
(* 0 <= idx < ceil(size/16) <= 4, so nothing outside the 64 bytes of the *)
(* buffer is written; uaes_cbc_decryption starts at ceil(size/16)-1 >= 0 *)
(* and uses idx-1 only while idx >= 1; idx goes up by one (ECB, CBC      *)
(* encryption) or down by one (CBC decryption) with each block; and      *)
(* every call returns.                                                   *)
C17_IndexInRangeAndTermination ==
  /\ [](IndexInRange)
  /\ [][IndexStep]_vars
  /\ (InCall ~> ~InCall)

C17_Witness ==
  /\ pc = "done" /\ fn = "uaes_cbc_decryption" /\ arg.size = 49
  /\ offset = 4 /\ idx = 0
  /\ Len(Transforms) = 4
  /\ Transforms[1].blk = 3
  /\ Transforms[4].blk = 0

=============================================================================
